---------------------------- MODULE Spec2Model ----------------------------
(***************************************************************************)
(* A model of rust_src/src/ng_async.rs: the pointer-passing duplex channel *)
(* between the Lisp (host) thread and a Rust worker thread.                *)
(*                                                                         *)
(* The host->worker pipe carries ptr_size() big-endian bytes per message,  *)
(* the worker->host pipe carries the address as decimal ASCII text.  The   *)
(* heap holds the boxes whose addresses travel over the pipes.             *)
(***************************************************************************)
EXTENDS Integers, Sequences, FiniteSets, TLC

(***************************************************************************)
(* Bounds of the model.                                                    *)
(***************************************************************************)
\* calls of async_send_message the host makes
MaxRequests == 2
\* calls of async_close_stream the host makes
MaxCloses == 2

(***************************************************************************)
(* Program constants.                                                      *)
(***************************************************************************)
\* size_of::<*mut String>() of a 32-bit build; the bytes of one pipe field
ptr_size == 4

nullptr == 0

\* the three bytes of U+FFFD, which from_utf8_lossy puts for invalid input
ReplacementChar == <<239, 191, 189>>

\* where the modelled heap starts: 0x01020300, an address whose bytes differ
HeapBase == 258 * 65536 + 768

\* the box addresses the allocator hands out (nonzero, aligned)
Addrs == {HeapBase + 8 * k : k \in 1..MaxRequests}

\* the externally owned resource of the initial user-ptr, and its finalizer
ResourcePtr == 4096

NullFinalizer == "None"

ResourceFinalizer == "finalizer"

(***************************************************************************)
(* Pure helpers.                                                           *)
(***************************************************************************)
RECURSIVE Pow(_, _)
Pow(b, e) == IF e = 0 THEN 1 ELSE b * Pow(b, e - 1)

\* ---- mutant of to_be_bytes: the field written least significant byte first
to_le_bytes(n) ==
    [i \in 1..ptr_size |-> (n \div Pow(256, i - 1)) % 256]

\* usize::to_be_bytes: the ptr_size() bytes of n, most significant first
to_be_bytes(n) ==
    [i \in 1..ptr_size |-> (n \div Pow(256, ptr_size - i)) % 256]

RECURSIVE BytesValue(_, _)
\* the value of the first n bytes of b, most significant first
BytesValue(b, n) ==
    IF n = 0 THEN 0 ELSE BytesValue(b, n - 1) * 256 + b[n]

\* usize::from_be_bytes: the value of a most-significant-first buffer
from_be_bytes(b) == BytesValue(b, Len(b))

RECURSIVE to_string(_)
\* usize::to_string: the decimal digits of n as ASCII bytes, the most
\* significant first
to_string(n) ==
    IF n < 10 THEN <<48 + n>>
    ELSE Append(to_string(n \div 10), 48 + (n % 10))

IsDigit(c) == c >= 48 /\ c <= 57

RECURSIVE DigitsValue(_, _)
\* the value of the first n decimal digits of s
DigitsValue(s, n) ==
    IF n = 0 THEN 0 ELSE DigitsValue(s, n - 1) * 10 + (s[n] - 48)

\* str::parse::<usize>: Err for the empty text or any non-digit
\* (a leading "+" is not produced by any writer of the pipe)
parse_usize(s) ==
    IF s # <<>> /\ \A i \in 1..Len(s) : IsDigit(s[i])
    THEN [ok |-> TRUE, value |-> DigitsValue(s, Len(s))]
    ELSE [ok |-> FALSE, value |-> 0]

RECURSIVE LossyPrefix(_, _)
\* the first n bytes of b, each byte that is not ASCII replaced by U+FFFD
LossyPrefix(b, n) ==
    IF n = 0 THEN <<>>
    ELSE LossyPrefix(b, n - 1)
         \o (IF b[n] < 128 THEN <<b[n]>> ELSE ReplacementChar)

\* String::from_utf8_lossy on the modelled bytes: ASCII bytes are kept, a
\* byte that cannot start a UTF-8 sequence becomes U+FFFD
from_utf8_lossy(b) == LossyPrefix(b, Len(b))

\* CString::new: Err(NulError) when the bytes hold an interior NUL
CString_new(content) ==
    IF \E i \in 1..Len(content) : content[i] = 0
    THEN [ok |-> FALSE, bytes |-> <<>>]
    ELSE [ok |-> TRUE, bytes |-> Append(content, 0)]

\* PipeDataOption
PipeDataOption == {"STRING", "USER_DATA"}

\* LispObject::from_data_option
from_data_option(option) ==
    IF option = "STRING" THEN "Qstring" ELSE "Quser_ptr"

\* ---- mutant of to_data_option: an object that is no kind tag is taken for
\* the tag of a String
to_data_option_default(o) ==
    CASE o = "Qstring" -> "STRING"
      [] o = "Quser_ptr" -> "USER_DATA"
      [] OTHER -> "STRING"

\* LispObject::to_data_option: "None" stands for Option::None
to_data_option(o) ==
    CASE o = "Qstring" -> "STRING"
      [] o = "Quser_ptr" -> "USER_DATA"
      [] OTHER -> "None"


(***************************************************************************)
(* Values.                                                                 *)
(***************************************************************************)
\* a Rust String
StringVal(s) == [k |-> "STRING", s |-> s]

\* UserData::with_data_and_finalizer
with_data_and_finalizer(data, finalizer) ==
    [k |-> "USER_DATA", data |-> data, finalizer |-> finalizer]

\* a heap slot that holds no box
NoBox == [live |-> FALSE]

\* the worker holds no message
NoVal == [k |-> "none"]

\* the Lisp strings the host may send, as their UTF-8 encoded bytes: "hi",
\* "h\0i" (a NUL inside) and "\377" (a byte that is never valid UTF-8)
LispStrings == {<<104, 105>>, <<104, 0, 105>>, <<255>>}

\* the std::io::ErrorKind a failing write of a pipe reports (EPIPE), and a
\* failing read (EINTR, which File::read does not retry)
WriteErrorKinds == {"BrokenPipe"}

ReadErrorKinds == {"Interrupted"}

(***************************************************************************)
(* State.                                                                  *)
(***************************************************************************)
VARIABLES
    handlerFn,    \* the #[async_stream] function the worker runs
    plist,        \* the process plist: Qcall, QCtype, Qreturn
    toWorker,     \* bytes in the pipe out_subp -> in_fd
    toHost,       \* bytes in the pipe out_fd -> the process filter
    fds,          \* the descriptors of the EmacsPipe that are open
    heap,         \* the boxes, by address
    uptr,         \* the user-ptr Lisp objects: p, finalizer, live
    wpc,          \* where the worker thread is in its loop
    wmsg,         \* the worker's message, then its result
    werr,         \* the error the worker's loop ended with
    stderr,       \* the error kinds eprintln! has printed
    panicked,     \* an unwrap() panicked on the Lisp thread
    ub,           \* Box::from_raw was given an address that holds no such box
    lastOp,       \* the last call the host made, and how it returned
    nCalls,       \* calls of async_send_message
    nCloses,      \* calls of async_close_stream
    sent,         \* the values message_rust_worker has written, in order
    received,     \* the values read_pend_message has returned, in order
    responded,    \* the values message_lisp has written, in order
    callbacks,    \* the values the completion callback was called with
    memlog,       \* the boxes made and reconstituted, in order
    finalized     \* times the resource's finalizer has run

vars == <<handlerFn, plist, toWorker, toHost, fds, heap, uptr, wpc, wmsg,
          werr, stderr, panicked, ub, lastOp, nCalls, nCloses, sent,
          received, responded, callbacks, memlog, finalized>>

\* INPUT::marker() and OUTPUT::marker() of the two #[async_stream] functions
InputMarker(fn)  == IF fn = "async_echo" THEN "STRING" ELSE "USER_DATA"

OutputMarker(fn) == IF fn = "async_echo" THEN "STRING" ELSE "USER_DATA"

\* EmacsPipe::create: the plist of the new pipe process
create(handler, input, output) ==
    [call   |-> handler,
     type   |-> from_data_option(input),
     return |-> from_data_option(output)]

\* EmacsPipe::with_process: the descriptors of the process
with_process == {"out_fd", "in_fd", "in_subp", "out_subp"}

\* rust_worker, up to thread::spawn: the channel exists, the thread is about
\* to read; the host holds one user-ptr that owns the resource
Init ==
    /\ handlerFn \in {"async_echo", "async_data_echo"}
    /\ plist = create("callback", InputMarker(handlerFn), OutputMarker(handlerFn))
    /\ toWorker = <<>>
    /\ toHost = <<>>
    /\ fds = with_process
    /\ heap = [a \in Addrs |-> NoBox]
    /\ uptr = <<[p |-> ResourcePtr, finalizer |-> ResourceFinalizer, live |-> TRUE]>>
    /\ wpc = "read"
    /\ wmsg = NoVal
    /\ werr = "none"
    /\ stderr = <<>>
    /\ panicked = FALSE
    /\ ub = FALSE
    /\ lastOp = [op |-> "none"]
    /\ nCalls = 0
    /\ nCloses = 0
    /\ sent = <<>>
    /\ received = <<>>
    /\ responded = <<>>
    /\ callbacks = <<>>
    /\ memlog = <<>>
    /\ finalized = 0

\* the process runs: no panic has aborted it, no undefined behaviour yet
Running == ~panicked /\ ~ub

FreeAddrs == {a \in Addrs : ~heap[a].live}

(***************************************************************************)
(* The pipe operations of EmacsPipe.  wr and rd are what the operating     *)
(* system answers to the one write or read the operation issues.           *)
(***************************************************************************)
\* Ok(n) with n the length asked for; short is the asked length minus n
WriteOk == [ok |-> TRUE, kind |-> "none", short |-> 0]

\* Ok(n) with n less than the length asked for
WriteShort(k) == [ok |-> TRUE, kind |-> "none", short |-> k]

WriteErr(kind) == [ok |-> FALSE, kind |-> kind, short |-> 0]

\* the bytes a write puts in the pipe: all of them, or fewer when it is short
Written(bytes, wr) ==
    IF ~wr.ok THEN <<>>
    ELSE IF wr.short >= Len(bytes) THEN <<>>
    ELSE SubSeq(bytes, 1, Len(bytes) - wr.short)

\* a read of a pipe that holds bytes: at most ptr_size() of them
PipeRead(stream) ==
    LET n == IF Len(stream) < ptr_size THEN Len(stream) ELSE ptr_size
    IN  [ok |-> TRUE, kind |-> "none", bytes |-> SubSeq(stream, 1, n)]

ReadErr(kind) == [ok |-> FALSE, kind |-> kind, bytes |-> <<>>]

\* a read at end-of-file: Ok(0), nothing is put in the buffer
PipeEOF == [ok |-> TRUE, kind |-> "none", bytes |-> <<>>]

AllocEvent(id, dir) == [e |-> "alloc", id |-> id, dir |-> dir]

\* the box id was reconstituted by the receiver of direction by; id 0: the
\* address held no box
FreeEvent(id, dir, by) == [e |-> "free", id |-> id, dir |-> dir, by |-> by]

\* the boxes are numbered in the order they are made
NextBoxId == 1 + Cardinality({i \in 1..Len(memlog) : memlog[i].e = "alloc"})

\* Box::into_raw(Box::new(content)) at address a
BoxNew(h, a, content, dir) ==
    [h EXCEPT ![a] = [live |-> TRUE, dir |-> dir, val |-> content,
                      id |-> NextBoxId]]

\* the event of Box::from_raw(a) by the receiver of direction by
FreeOf(h, a, by) ==
    IF a \in Addrs /\ h[a].live
    THEN FreeEvent(h[a].id, h[a].dir, by)
    ELSE FreeEvent(0, "none", by)

\* whether *Box::from_raw(a as *mut T) finds a box of kind T at a
BoxValid(h, a, kind) ==
    a \in Addrs /\ h[a].live /\ h[a].val.k = kind

\* EmacsPipe::internal_write: one write of bytes to out_subp; the count the
\* write returns is dropped by map(|_| ())
internal_write(stream, bytes, wr) ==
    [result |-> [ok |-> wr.ok, kind |-> wr.kind],
     stream |-> stream \o Written(bytes, wr)]

\* ---- mutant of write_ptr: the field written is the zero address
write_ptr_null(stream, ptr, wr) ==
    internal_write(stream, to_be_bytes(nullptr), wr)

\* EmacsPipe::write_ptr
write_ptr(stream, ptr, wr) ==
    internal_write(stream, to_be_bytes(ptr), wr)

\* EmacsPipe::close_stream
close_stream(stream, wr) ==
    internal_write(stream, to_be_bytes(nullptr), wr)

\* ---- mutant of read_next_ptr: the zero address is not told from a payload
read_next_ptr_no_sentinel(rd) ==
    IF ~rd.ok
    THEN [ok |-> FALSE, kind |-> rd.kind, value |-> 0, in_fd_open |-> FALSE]
    ELSE [ok |-> TRUE, kind |-> "none",
          value |-> from_be_bytes(rd.bytes \o [i \in 1..(ptr_size - Len(rd.bytes)) |-> 0]),
          in_fd_open |-> TRUE]

\* ---- mutant of read_next_ptr: every failed read is reported as
\* ConnectionAborted
read_next_ptr_closed_on_error(rd) ==
    IF ~rd.ok
    THEN [ok |-> FALSE, kind |-> "ConnectionAborted", value |-> 0,
          in_fd_open |-> FALSE]
    ELSE LET buffer == rd.bytes \o [i \in 1..(ptr_size - Len(rd.bytes)) |-> 0]
             raw_value == from_be_bytes(buffer)
         IN  IF raw_value = nullptr
             THEN [ok |-> FALSE, kind |-> "ConnectionAborted", value |-> 0,
                   in_fd_open |-> TRUE]
             ELSE [ok |-> TRUE, kind |-> "none", value |-> raw_value,
                   in_fd_open |-> TRUE]

\* ---- mutant of read_next_ptr: a read of fewer than ptr_size() bytes is an
\* error, as with read_exact
read_next_ptr_exact(rd) ==
    IF ~rd.ok
    THEN [ok |-> FALSE, kind |-> rd.kind, value |-> 0, in_fd_open |-> FALSE]
    ELSE IF Len(rd.bytes) < ptr_size
    THEN [ok |-> FALSE, kind |-> "UnexpectedEof", value |-> 0,
          in_fd_open |-> FALSE]
    ELSE LET raw_value == from_be_bytes(rd.bytes)
         IN  IF raw_value = nullptr
             THEN [ok |-> FALSE, kind |-> "ConnectionAborted", value |-> 0,
                   in_fd_open |-> TRUE]
             ELSE [ok |-> TRUE, kind |-> "none", value |-> raw_value,
                   in_fd_open |-> TRUE]

\* EmacsPipe::read_next_ptr: one read of in_fd into a zeroed buffer; the `?`
\* returns before into_raw_fd, so the File is dropped and in_fd closed
read_next_ptr(rd) ==
    IF ~rd.ok
    THEN [ok |-> FALSE, kind |-> rd.kind, value |-> 0, in_fd_open |-> FALSE]
    ELSE LET buffer == rd.bytes \o [i \in 1..(ptr_size - Len(rd.bytes)) |-> 0]
             raw_value == from_be_bytes(buffer)
         IN  IF raw_value = nullptr
             THEN [ok |-> FALSE, kind |-> "ConnectionAborted", value |-> 0,
                   in_fd_open |-> TRUE]
             ELSE [ok |-> TRUE, kind |-> "none", value |-> raw_value,
                   in_fd_open |-> TRUE]


\* EmacsPipe::message_rust_worker: box content at address a, write_ptr it
message_rust_worker(h, stream, content, a, wr) ==
    LET boxed == BoxNew(h, a, content, "toWorker")
        w     == write_ptr(stream, a, wr)
    IN  [result |-> w.result, stream |-> w.stream, heap |-> boxed]

\* EmacsPipe::message_lisp: box content at address a, write the address as
\* decimal text to out_fd in one write
message_lisp(h, stream, content, a, wr) ==
    LET boxed == BoxNew(h, a, content, "toHost")
        bin   == a
    IN  [result |-> [ok |-> wr.ok, kind |-> wr.kind],
         stream |-> stream \o Written(to_string(bin), wr),
         heap   |-> boxed]

\* ---- mutant of eprint_if_unexpected_error: every error is printed
eprint_every_error(log, kind) == Append(log, kind)

\* eprint_if_unexpected_error: what stderr holds after it
eprint_if_unexpected_error(log, kind) ==
    IF kind # "ConnectionAborted" THEN Append(log, kind) ELSE log

\* async_echo
async_echo(s) == s

\* async_data_echo
async_data_echo(e) == e

\* fnc of rust_worker
fnc(message) ==
    IF handlerFn = "async_echo" THEN async_echo(message)
    ELSE async_data_echo(message)

(***************************************************************************)
(* The worker thread: the loop of rust_worker, one action per step.        *)
(***************************************************************************)
\* pipe.read_pend_message() and the match on its result
rust_worker_receive(rd) ==
    /\ Running
    /\ wpc = "read"
    /\ LET r == read_next_ptr(rd)
       IN  /\ toWorker' = SubSeq(toWorker, Len(rd.bytes) + 1, Len(toWorker))
           /\ fds' = IF r.in_fd_open THEN fds ELSE fds \ {"in_fd"}
           /\ IF r.ok
              THEN IF BoxValid(heap, r.value, InputMarker(handlerFn))
                   THEN /\ heap' = [heap EXCEPT ![r.value] = NoBox]
                        /\ memlog' = Append(memlog, FreeOf(heap, r.value, "toWorker"))
                        /\ received' = Append(received, heap[r.value].val)
                        /\ wmsg' = heap[r.value].val
                        /\ wpc' = "handle"
                        /\ UNCHANGED <<ub, werr, stderr>>
                   ELSE /\ ub' = TRUE
                        /\ memlog' = Append(memlog, FreeOf(heap, r.value, "toWorker"))
                        /\ UNCHANGED <<heap, received, wmsg, wpc, werr, stderr>>
              ELSE /\ stderr' = eprint_if_unexpected_error(stderr, r.kind)
                   /\ werr' = r.kind
                   /\ wpc' = "exited"
                   /\ UNCHANGED <<heap, memlog, received, wmsg, ub>>
    /\ UNCHANGED <<handlerFn, plist, toHost, uptr, panicked, lastOp, nCalls,
                   nCloses, sent, responded, callbacks, finalized>>

\* let result = fnc(message)
rust_worker_handle ==
    /\ Running
    /\ wpc = "handle"
    /\ wmsg' = fnc(wmsg)
    /\ wpc' = "send"
    /\ UNCHANGED <<handlerFn, plist, toWorker, toHost, fds, heap, uptr, werr,
                   stderr, panicked, ub, lastOp, nCalls, nCloses, sent,
                   received, responded, callbacks, memlog, finalized>>

\* ---- mutant of rust_worker_send: after a response is written the loop does
\* not go back to read_pend_message: the result is sent again
rust_worker_send_again(a, wr) ==
    /\ Running
    /\ wpc = "send"
    /\ a \in FreeAddrs
    /\ \E m \in {message_lisp(heap, toHost, wmsg, a, wr)} :
           /\ heap' = m.heap
           /\ toHost' = m.stream
           /\ memlog' = Append(memlog, AllocEvent(NextBoxId, "toHost"))
           /\ responded' = Append(responded, wmsg)
    /\ UNCHANGED <<handlerFn, plist, toWorker, fds, uptr, wpc, wmsg, werr,
                   stderr, panicked, ub, lastOp, nCalls, nCloses, sent,
                   received, callbacks, finalized>>

\* pipe.message_lisp(result) and the if let Err on its result
rust_worker_send(a, wr) ==
    /\ Running
    /\ wpc = "send"
    /\ a \in FreeAddrs
    /\ \E m \in {message_lisp(heap, toHost, wmsg, a, wr)} :
           /\ heap' = m.heap
           /\ toHost' = m.stream
           /\ memlog' = Append(memlog, AllocEvent(NextBoxId, "toHost"))
           /\ IF m.result.ok
              THEN /\ responded' = Append(responded, wmsg)
                   /\ wpc' = "read"
                   /\ UNCHANGED <<werr, stderr>>
              ELSE /\ stderr' = eprint_if_unexpected_error(stderr, m.result.kind)
                   /\ werr' = m.result.kind
                   /\ wpc' = "exited"
                   /\ UNCHANGED responded
    /\ wmsg' = NoVal
    /\ UNCHANGED <<handlerFn, plist, toWorker, fds, uptr, panicked, ub, lastOp,
                   nCalls, nCloses, sent, received, callbacks, finalized>>


(***************************************************************************)
(* The Lisp thread.  A Lisp message is a string, given by its bytes, or a  *)
(* user-ptr, given by its place in uptr.                                   *)
(***************************************************************************)
LispString(bytes) == [t |-> "string", bytes |-> bytes]

LispUserPtr(id) == [t |-> "user_ptr", id |-> id]

\* the messages the host can pass to async_send_message
Messages ==
    {LispString(b) : b \in LispStrings}
    \cup {LispUserPtr(i) : i \in {j \in 1..Len(uptr) : uptr[j].live}}

\* message.is_string()
is_string(message) == message.t = "string"

\* is_user_ptr / Fuser_ptrp
is_user_ptr(message) == message.t = "user_ptr"

\* the outcome of a call that signals wrong_type!: nothing has been done
WrongType(pred) ==
    [signal |-> pred, ok |-> FALSE, stream |-> toWorker, heap |-> heap,
     uptr |-> uptr, boxed |-> FALSE, content |-> NoVal]

\* ---- mutant of internal_send_message: no check of the message's type; a
\* message of the other kind is boxed and sent as it is
internal_send_message_unchecked(message, option, a, wr) ==
    LET content == IF is_string(message)
                   THEN StringVal(from_utf8_lossy(message.bytes))
                   ELSE with_data_and_finalizer(uptr[message.id].p,
                                                uptr[message.id].finalizer)
        m == message_rust_worker(heap, toWorker, content, a, wr)
    IN  [signal |-> "none", ok |-> m.result.ok, stream |-> m.stream,
         heap |-> m.heap,
         uptr |-> IF is_string(message) THEN uptr
                  ELSE [uptr EXCEPT ![message.id].p = 0,
                                    ![message.id].finalizer = NullFinalizer],
         boxed |-> TRUE, content |-> content]

\* ---- mutant of internal_send_message: the user-ptr keeps its pointer and
\* its finalizer after the UserData is made from it
internal_send_message_keep(message, option, a, wr) ==
    IF option = "STRING"
    THEN IF ~is_string(message)
         THEN WrongType("Qstringp")
         ELSE LET contents == from_utf8_lossy(message.bytes)
                  m == message_rust_worker(heap, toWorker, StringVal(contents),
                                           a, wr)
              IN  [signal |-> "none", ok |-> m.result.ok, stream |-> m.stream,
                   heap |-> m.heap, uptr |-> uptr, boxed |-> TRUE,
                   content |-> StringVal(contents)]
    ELSE IF ~is_user_ptr(message)
         THEN WrongType("Quser_ptrp")
         ELSE LET data == uptr[message.id]
                  ud == with_data_and_finalizer(data.p, data.finalizer)
                  m == message_rust_worker(heap, toWorker, ud, a, wr)
              IN  [signal |-> "none", ok |-> m.result.ok, stream |-> m.stream,
                   heap |-> m.heap, uptr |-> uptr, boxed |-> TRUE,
                   content |-> ud]

\* ---- mutant of internal_send_message: the user-ptr's pointer is nulled but
\* its finalizer is left in place
internal_send_message_keep_finalizer(message, option, a, wr) ==
    IF option = "STRING"
    THEN IF ~is_string(message)
         THEN WrongType("Qstringp")
         ELSE LET contents == from_utf8_lossy(message.bytes)
                  m == message_rust_worker(heap, toWorker, StringVal(contents),
                                           a, wr)
              IN  [signal |-> "none", ok |-> m.result.ok, stream |-> m.stream,
                   heap |-> m.heap, uptr |-> uptr, boxed |-> TRUE,
                   content |-> StringVal(contents)]
    ELSE IF ~is_user_ptr(message)
         THEN WrongType("Quser_ptrp")
         ELSE LET data == uptr[message.id]
                  ud == with_data_and_finalizer(data.p, data.finalizer)
                  nulled == [uptr EXCEPT ![message.id].p = 0]
                  m == message_rust_worker(heap, toWorker, ud, a, wr)
              IN  [signal |-> "none", ok |-> m.result.ok, stream |-> m.stream,
                   heap |-> m.heap, uptr |-> nulled, boxed |-> TRUE,
                   content |-> ud]

\* internal_send_message: the outcome of sending message as kind option,
\* boxed at address a
internal_send_message(message, option, a, wr) ==
    IF option = "STRING"
    THEN IF ~is_string(message)
         THEN WrongType("Qstringp")
         ELSE LET contents == from_utf8_lossy(message.bytes)
                  m == message_rust_worker(heap, toWorker, StringVal(contents),
                                           a, wr)
              IN  [signal |-> "none", ok |-> m.result.ok, stream |-> m.stream,
                   heap |-> m.heap, uptr |-> uptr, boxed |-> TRUE,
                   content |-> StringVal(contents)]
    ELSE IF ~is_user_ptr(message)
         THEN WrongType("Quser_ptrp")
         ELSE LET data == uptr[message.id]
                  ud == with_data_and_finalizer(data.p, data.finalizer)
                  nulled == [uptr EXCEPT ![message.id].p = 0,
                                         ![message.id].finalizer = NullFinalizer]
                  m == message_rust_worker(heap, toWorker, ud, a, wr)
              IN  [signal |-> "none", ok |-> m.result.ok, stream |-> m.stream,
                   heap |-> m.heap, uptr |-> nulled, boxed |-> TRUE,
                   content |-> ud]

\* requests written and not yet answered by a call of the callback
Outstanding == Len(sent) - Len(callbacks)

\* async_send_message(proc, message).  The host keeps the depth-one usage
\* rule: it does not call while a request is outstanding.
async_send_message(message, a, wr) ==
    /\ Running
    /\ nCalls < MaxRequests
    /\ Outstanding = 0
    /\ a \in FreeAddrs
    /\ LET qtype == plist.type
           option == to_data_option(qtype)
           r == IF option # "None"
                THEN internal_send_message(message, option, a, wr)
                ELSE WrongType("Qdata")
       IN  /\ toWorker' = r.stream
           /\ heap' = r.heap
           /\ uptr' = r.uptr
           /\ memlog' = IF r.boxed
                        THEN Append(memlog, AllocEvent(NextBoxId, "toWorker"))
                        ELSE memlog
           /\ sent' = IF r.boxed /\ r.ok THEN Append(sent, r.content) ELSE sent
           /\ lastOp' = [op |-> "async_send_message", msg |-> message,
                         result |-> IF r.signal # "none" THEN "wrong_type"
                                    ELSE IF r.ok THEN "t" ELSE "nil",
                         signal |-> r.signal]
    /\ nCalls' = nCalls + 1
    /\ UNCHANGED <<handlerFn, plist, toHost, fds, wpc, wmsg, werr, stderr,
                   panicked, ub, nCloses, received, responded, callbacks,
                   finalized>>

\* ---- mutant of async_close_stream: the close interrupts the worker, which
\* drops the request it holds and ends its loop
async_close_stream_preempt(wr) ==
    /\ Running
    /\ nCloses < MaxCloses
    /\ LET c == close_stream(toWorker, wr)
       IN  /\ toWorker' = c.stream
           /\ lastOp' = [op |-> "async_close_stream",
                         result |-> IF c.result.ok THEN "t" ELSE "nil",
                         during |-> (wpc = "handle")]
    /\ nCloses' = nCloses + 1
    /\ wpc' = "exited"
    /\ wmsg' = NoVal
    /\ UNCHANGED <<handlerFn, plist, toHost, fds, heap, uptr, werr,
                   stderr, panicked, ub, nCalls, sent, received, responded,
                   callbacks, memlog, finalized>>

\* async_close_stream(proc); lastOp notes whether the worker was in the
\* handler at the call
async_close_stream(wr) ==
    /\ Running
    /\ nCloses < MaxCloses
    /\ LET c == close_stream(toWorker, wr)
       IN  /\ toWorker' = c.stream
           /\ lastOp' = [op |-> "async_close_stream",
                         result |-> IF c.result.ok THEN "t" ELSE "nil",
                         during |-> (wpc = "handle")]
    /\ nCloses' = nCloses + 1
    /\ UNCHANGED <<handlerFn, plist, toHost, fds, heap, uptr, wpc, wmsg, werr,
                   stderr, panicked, ub, nCalls, sent, received, responded,
                   callbacks, memlog, finalized>>


\* make_user_ptr(finalizer, data): a new user-ptr Lisp object
make_user_ptr(up, finalizer, data) ==
    Append(up, [p |-> data, finalizer |-> finalizer, live |-> TRUE])

\* ---- mutant of make_return_value: the value is read through the pointer and
\* the box is not reconstituted, so it is never freed
make_return_value_borrow(ptrval, option) ==
    IF ~BoxValid(heap, ptrval, option)
    THEN [ub |-> TRUE, panic |-> FALSE, heap |-> heap, uptr |-> uptr,
          retval |-> NoVal]
    ELSE LET content == heap[ptrval].val
         IN  IF option = "STRING"
             THEN IF ~CString_new(content.s).ok
                  THEN [ub |-> FALSE, panic |-> TRUE, heap |-> heap,
                        uptr |-> uptr, retval |-> NoVal]
                  ELSE [ub |-> FALSE, panic |-> FALSE, heap |-> heap,
                        uptr |-> uptr, retval |-> LispString(content.s)]
             ELSE [ub |-> FALSE, panic |-> FALSE, heap |-> heap,
                   uptr |-> make_user_ptr(uptr, content.finalizer, content.data),
                   retval |-> [t |-> "user_ptr", id |-> Len(uptr) + 1,
                               p |-> content.data,
                               finalizer |-> content.finalizer]]

\* make_return_value: the Lisp value of the box at ptrval, read as kind
\* option.  The box is reconstituted and freed; CString::new(..).unwrap()
\* panics on a String that holds a NUL byte.
make_return_value(ptrval, option) ==
    IF ~BoxValid(heap, ptrval, option)
    THEN [ub |-> TRUE, panic |-> FALSE, heap |-> heap, uptr |-> uptr,
          retval |-> NoVal]
    ELSE LET content == heap[ptrval].val
             freed == [heap EXCEPT ![ptrval] = NoBox]
         IN  IF option = "STRING"
             THEN LET nbytes == Len(content.s)
                      c_content == CString_new(content.s)
                  IN  IF ~c_content.ok
                      THEN [ub |-> FALSE, panic |-> TRUE, heap |-> freed,
                            uptr |-> uptr, retval |-> NoVal]
                      ELSE [ub |-> FALSE, panic |-> FALSE, heap |-> freed,
                            uptr |-> uptr,
                            retval |-> LispString(SubSeq(c_content.bytes, 1, nbytes))]
             ELSE [ub |-> FALSE, panic |-> FALSE, heap |-> freed,
                   uptr |-> make_user_ptr(uptr, content.finalizer, content.data),
                   retval |-> [t |-> "user_ptr", id |-> Len(uptr) + 1,
                               p |-> content.data,
                               finalizer |-> content.finalizer]]

\* what the process filter is called with: the bytes the worker->host pipe
\* holds when the host reads it
read_process_output == toHost

\* async_handler(proc, data): the process filter of the channel
async_handler(data) ==
    /\ Running
    /\ data # <<>>
    /\ toHost' = <<>>
    /\ \E sslice \in {from_utf8_lossy(data)} : \E bin \in {parse_usize(sslice)} :
       LET orig_handler == plist.call
           qtype == plist.return
           option == to_data_option(qtype)
       IN  IF ~bin.ok
           THEN /\ panicked' = TRUE
                /\ lastOp' = [op |-> "async_handler", result |-> "panic"]
                /\ UNCHANGED <<heap, uptr, ub, callbacks, memlog>>
           ELSE IF option = "None"
           THEN /\ lastOp' = [op |-> "async_handler", result |-> "wrong_type"]
                /\ UNCHANGED <<heap, uptr, ub, panicked, callbacks, memlog>>
           ELSE \E r \in {make_return_value(bin.value, option)} :
                    /\ heap' = r.heap
                    /\ uptr' = r.uptr
                    /\ ub' = r.ub
                    /\ panicked' = r.panic
                    /\ memlog' = Append(memlog, FreeOf(heap, bin.value, "toHost"))
                    /\ callbacks' = IF r.ub \/ r.panic THEN callbacks
                                    ELSE Append(callbacks,
                                                [fn |-> orig_handler,
                                                 value |-> r.retval])
                    /\ lastOp' = [op |-> "async_handler",
                                  result |-> IF r.panic THEN "panic"
                                             ELSE IF r.ub THEN "ub" ELSE "t"]
    /\ UNCHANGED <<handlerFn, plist, toWorker, fds, wpc, wmsg, werr, stderr,
                   nCalls, nCloses, sent, received, responded, finalized>>

\* the garbage collector frees the user-ptr i the host no longer refers to:
\* its finalizer, if it has one, is called with its pointer
drop_user_ptr(i) ==
    /\ Running
    /\ i \in 1..Len(uptr)
    /\ uptr[i].live
    /\ uptr' = [uptr EXCEPT ![i].live = FALSE]
    /\ finalized' = IF uptr[i].finalizer # NullFinalizer
                    THEN finalized + 1 ELSE finalized
    /\ UNCHANGED <<handlerFn, plist, toWorker, toHost, fds, heap, wpc, wmsg,
                   werr, stderr, panicked, ub, lastOp, nCalls, nCloses, sent,
                   received, responded, callbacks, memlog>>

(***************************************************************************)
(* The specifications.                                                     *)
(***************************************************************************)
HostSend == \E m \in Messages, a \in Addrs : async_send_message(m, a, WriteOk)

HostClose == async_close_stream(WriteOk)

HostNotify == async_handler(read_process_output)

HostDrop == \E i \in 1..Len(uptr) : drop_user_ptr(i)

WorkerReceive ==
    /\ toWorker # <<>>
    /\ rust_worker_receive(PipeRead(toWorker))

WorkerHandle == rust_worker_handle

WorkerSend == \E a \in Addrs : rust_worker_send(a, WriteOk)

Next ==
    \/ HostSend
    \/ HostClose
    \/ HostNotify
    \/ HostDrop
    \/ WorkerReceive
    \/ WorkerHandle
    \/ WorkerSend

\* every read and write of a pipe succeeds
Spec == Init /\ [][Next]_vars


\* the same, under fair scheduling of the worker thread and of the host's
\* byte-arrival notification
SpecFair ==
    /\ Spec
    /\ WF_vars(WorkerReceive)
    /\ WF_vars(WorkerHandle)
    /\ WF_vars(WorkerSend)
    /\ WF_vars(HostNotify)

HostSendFail ==
    \E m \in Messages, a \in Addrs, k \in WriteErrorKinds :
        async_send_message(m, a, WriteErr(k))

HostCloseFail == \E k \in WriteErrorKinds : async_close_stream(WriteErr(k))

WorkerReceiveFail == \E k \in ReadErrorKinds : rust_worker_receive(ReadErr(k))

WorkerSendFail ==
    \E a \in Addrs, k \in WriteErrorKinds : rust_worker_send(a, WriteErr(k))

\* the read of an empty pipe whose write end is closed returns Ok(0)
WorkerReceiveEOF ==
    /\ toWorker = <<>>
    /\ rust_worker_receive(PipeEOF)

NextIO ==
    \/ Next
    \/ HostSendFail
    \/ HostCloseFail
    \/ WorkerReceiveFail
    \/ WorkerReceiveEOF
    \/ WorkerSendFail

\* a read or a write of a pipe may fail with an I/O error
SpecIO == Init /\ [][NextIO]_vars

\* Lisp code has mishandled the process plist: the kind tag of one direction
\* is removed, so that Fplist_get gives nil
plist_remove(key) ==
    /\ Running
    /\ plist[key] # "Qnil"
    /\ plist' = [plist EXCEPT ![key] = "Qnil"]
    /\ UNCHANGED <<handlerFn, toWorker, toHost, fds, heap, uptr, wpc, wmsg,
                   werr, stderr, panicked, ub, lastOp, nCalls, nCloses, sent,
                   received, responded, callbacks, memlog, finalized>>

HostRemoveTag == \E key \in {"type", "return"} : plist_remove(key)

NextPlist ==
    \/ Next
    \/ HostRemoveTag

\* the kind tags of the process plist may be removed by Lisp code
SpecPlist == Init /\ [][NextPlist]_vars

\* the numbers of bytes a write of a field may fall short by: the last byte
\* is missing, or all but the first
ShortBy == {1, ptr_size - 1}

HostSendShort ==
    \E m \in Messages, a \in Addrs, k \in ShortBy :
        async_send_message(m, a, WriteShort(k))

HostCloseShort == \E k \in ShortBy : async_close_stream(WriteShort(k))

WorkerSendShort ==
    \E a \in Addrs, k \in ShortBy : rust_worker_send(a, WriteShort(k))

NextShort ==
    \/ Next
    \/ HostSendShort
    \/ HostCloseShort
    \/ WorkerSendShort

\* a write of a pipe may transfer fewer bytes than it was given; a read then
\* finds fewer than ptr_size() bytes in the pipe
SpecShort == Init /\ [][NextShort]_vars

(***************************************************************************)
(* Notions the properties are stated with.                                 *)
(***************************************************************************)
RECURSIVE EventsPrefix(_, _, _, _)
EventsPrefix(log, n, e, side) ==
    IF n = 0 THEN <<>>
    ELSE IF log[n].e = e
            /\ (IF e = "alloc" THEN log[n].dir ELSE log[n].by) = side
         THEN Append(EventsPrefix(log, n - 1, e, side), log[n])
         ELSE EventsPrefix(log, n - 1, e, side)

\* the events of memlog of one sort, in order: the boxes made by the sends
\* of a direction, or reconstituted by its receiver
Events(log, e, side) == EventsPrefix(log, Len(log), e, side)

\* a Lisp value the callback got equals the Rust value v: the same bytes and
\* length for a String, the same pointer and finalizer for a UserData
HostValueEq(retval, v) ==
    IF v.k = "STRING"
    THEN retval.t = "string" /\ retval.bytes = v.s
    ELSE retval.t = "user_ptr" /\ retval.p = v.data
         /\ retval.finalizer = v.finalizer

\* the next field of the host->worker pipe is the sentinel
SentinelAtHead ==
    /\ Len(toWorker) >= ptr_size
    /\ \A i \in 1..ptr_size : toWorker[i] = 0

\* this step is a receive of the worker that took bytes from the pipe
ReceiveStep == Len(toWorker') < Len(toWorker)

\* this step is a call of async_send_message
SendCallStep == nCalls' = nCalls + 1


\* the calls of async_handler that reached make_return_value
Handled == Events(memlog, "free", "toHost")

\* the ids of the boxes made and not yet reconstituted, by memlog
Unfreed ==
    {memlog[i].id : i \in {j \in 1..Len(memlog) : memlog[j].e = "alloc"}}
    \ {memlog[i].id : i \in {j \in 1..Len(memlog) : memlog[j].e = "free"}}

\* the owners of the resource and its finalizer: live user-ptrs, boxes in
\* flight, the worker's message
Holders ==
    Cardinality({i \in 1..Len(uptr) :
                    /\ uptr[i].live
                    /\ uptr[i].p = ResourcePtr
                    /\ uptr[i].finalizer # NullFinalizer})
    + Cardinality({a \in Addrs :
                    /\ heap[a].live
                    /\ heap[a].val.k = "USER_DATA"
                    /\ heap[a].val.data = ResourcePtr})
    + (IF wmsg.k = "USER_DATA" /\ wmsg.data = ResourcePtr THEN 1 ELSE 0)

\* the fields of the host->worker pipe that hold the address a
FieldsOf(a) ==
    {i \in 0..((Len(toWorker) \div ptr_size) - 1) :
        SubSeq(toWorker, i * ptr_size + 1, (i + 1) * ptr_size) = to_be_bytes(a)}

\* the in-flight slots that hold the address a: fields of the host->worker
\* pipe, and the text in the worker->host pipe
InFlight(a) ==
    Cardinality(FieldsOf(a)) + (IF toHost = to_string(a) THEN 1 ELSE 0)

\* the requests the worker has received or will receive: those it has, and
\* while its loop runs the payload fields in the pipe before the first
\* sentinel
Answerable ==
    Len(received)
    + (IF wpc = "exited" THEN 0
       ELSE Cardinality({i \in 0..((Len(toWorker) \div ptr_size) - 1) :
                            \A j \in FieldsOf(nullptr) : i < j}))

\* this step is a call of async_handler
HandlerStep == toHost # <<>> /\ toHost' = <<>>

(***************************************************************************)
(* The properties.                                                         *)
(***************************************************************************)

\* C1: host-to-worker round trip.  The values read_pend_message returns are,
\* in order, the values message_rust_worker wrote, and every address the
\* worker decoded from the pipe was the address of a box of the host.
RoundTripToWorker ==
    /\ Len(received) <= Len(sent)
    /\ \A i \in 1..Len(received) : received[i] = sent[i]
    /\ \A i \in 1..Len(memlog) :
          (memlog[i].e = "free" /\ memlog[i].by = "toWorker")
              => (memlog[i].id # 0 /\ memlog[i].dir = "toWorker")

\* C1 witness: the resource has crossed to the worker twice, the second time
\* from the user-ptr the first round trip made
RoundTripToWorkerWitness ==
    /\ Len(received) >= 2
    /\ received[1].k = "USER_DATA"
    /\ received[2].data = ResourcePtr
    /\ received[2].finalizer = ResourceFinalizer

\* C2: worker-to-host round trip, as claimed.  Every call of async_handler on
\* the text message_lisp wrote has called the callback with a value equal to
\* the value message_lisp was given.
RoundTripToHost ==
    \A i \in 1..Len(Handled) :
        /\ i <= Len(callbacks)
        /\ HostValueEq(callbacks[i].value, responded[i])

\* C3: allocation balance.  Each send has made one box and each receive has
\* freed one; a reconstituted box was made by a send of the same direction
\* and is reconstituted once; the boxes the heap holds are the ones made and
\* not reconstituted.
AllocationBalance ==
    /\ Len(Events(memlog, "alloc", "toWorker")) = Len(sent)
    /\ Len(Events(memlog, "alloc", "toHost")) = Len(responded)
    /\ Len(Events(memlog, "free", "toWorker")) = Len(received)
    /\ Len(Handled) = Len(callbacks) + (IF panicked THEN 1 ELSE 0)
    /\ \A i \in 1..Len(memlog) :
          memlog[i].e = "free" =>
              /\ memlog[i].id # 0
              /\ memlog[i].dir = memlog[i].by
              /\ \E j \in 1..(i - 1) :
                    /\ memlog[j].e = "alloc"
                    /\ memlog[j].id = memlog[i].id
                    /\ memlog[j].dir = memlog[i].by
              /\ \A j \in 1..Len(memlog) :
                    (j # i /\ memlog[j].e = "free")
                        => memlog[j].id # memlog[i].id
    /\ {heap[a].id : a \in {b \in Addrs : heap[b].live}} = Unfreed
    /\ Cardinality({a \in Addrs : heap[a].live}) = Cardinality(Unfreed)

\* C3 witness: two requests have gone round, four boxes made and freed
AllocationBalanceWitness ==
    /\ Len(callbacks) = 2
    /\ Len(memlog) = 8
    /\ \A a \in Addrs : ~heap[a].live

\* C4 as claimed: once close_stream has written the sentinel, the next
\* receive of the worker returns Closed.
CloseNextReceiveIsClosed ==
    [][(nCloses > 0 /\ ReceiveStep)
          => (wpc' = "exited" /\ werr' = "ConnectionAborted")]_vars

\* C4 as amended: the receive that reads the sentinel returns Closed and logs
\* nothing, a receive of a request written before the sentinel returns the
\* request, and once the loop has exited the worker receives nothing, runs
\* no handler and sends nothing.
CloseTermination ==
    [][/\ (ReceiveStep /\ SentinelAtHead)
            => (wpc' = "exited" /\ werr' = "ConnectionAborted"
                /\ stderr' = stderr /\ received' = received)
       /\ (ReceiveStep /\ ~SentinelAtHead)
            => (wpc' = "handle" /\ Len(received') = Len(received) + 1)
       /\ wpc = "exited"
            => (wpc' = "exited" /\ werr' = werr /\ wmsg' = wmsg
                /\ ~ReceiveStep /\ received' = received
                /\ responded' = responded
                /\ Len(Events(memlog', "alloc", "toHost"))
                     = Len(Events(memlog, "alloc", "toHost")))]_vars

\* C4 witness: the host closed while its request was in the pipe; the worker
\* has answered the request, then read the sentinel and exited, and bytes
\* written after the sentinel stay in the pipe
CloseTerminationWitness ==
    /\ wpc = "exited"
    /\ werr = "ConnectionAborted"
    /\ Len(responded) = 1
    /\ toWorker # <<>>

\* C5: type safety of async_send_message.  A call with a message that is not
\* of the channel's input kind signals a type error and writes nothing,
\* boxes nothing and leaves every user-ptr as it was.
TypeSafety ==
    [][(/\ SendCallStep
        /\ \/ to_data_option(plist.type) = "STRING" /\ lastOp'.msg.t # "string"
           \/ to_data_option(plist.type) = "USER_DATA" /\ lastOp'.msg.t # "user_ptr")
          => (/\ lastOp'.result = "wrong_type"
              /\ toWorker' = toWorker
              /\ heap' = heap
              /\ uptr' = uptr
              /\ memlog' = memlog
              /\ sent' = sent)]_vars

\* C5 witness: a user-ptr that owns the resource was given to the channel of
\* async_echo, whose input is a String, and the call signalled
TypeSafetyWitness ==
    /\ handlerFn = "async_echo"
    /\ lastOp.op = "async_send_message"
    /\ lastOp.msg.t = "user_ptr"
    /\ lastOp.result = "wrong_type"
    /\ lastOp.signal = "Qstringp"

\* C6: callback multiplicity, as claimed.  The callback has been called once
\* for each notification async_handler has handled, and never more often
\* than the worker has responded or the host has sent.
CallbackMultiplicity ==
    /\ Len(callbacks) <= Len(responded)
    /\ Len(callbacks) <= Len(sent)
    /\ Len(callbacks) = Len(responded) - (IF toHost # <<>> THEN 1 ELSE 0)

\* C7: strict ordering.  The host has seen no more responses than the worker
\* has sent, the worker has sent no more than it has received, and it has
\* received no more than the host has sent; a response is in the pipe only
\* for a request the host has sent.
StrictOrdering ==
    /\ Len(callbacks) <= Len(responded)
    /\ Len(responded) <= Len(received)
    /\ Len(received) <= Len(sent)
    /\ (wpc = "send" \/ wpc = "handle") => Len(responded) = Len(received) - 1
    /\ wpc = "read" => Len(responded) = Len(received)

\* C7 witness: two requests have been answered one after the other
StrictOrderingWitness ==
    /\ Len(callbacks) = 2
    /\ Len(sent) = 2

\* C8: ownership transfer of a resource.  The finalizer runs at most once,
\* and it has run exactly when no user-ptr, no box and no worker message
\* owns the resource any more.
OwnershipTransfer ==
    /\ finalized <= 1
    /\ Holders + finalized = 1

\* C8 witness: the user-ptr was sent, echoed by the worker and made into a new
\* user-ptr by make_return_value; both user-ptrs were dropped and the
\* finalizer has run once
OwnershipTransferWitness ==
    /\ handlerFn = "async_data_echo"
    /\ Len(callbacks) = 1
    /\ callbacks[1].value.p = ResourcePtr
    /\ Len(uptr) = 2
    /\ ~uptr[1].live
    /\ ~uptr[2].live
    /\ finalized = 1

\* C9: the end-to-end scenario, as claimed.  Under fair scheduling, a request
\* written before any close is answered by a call of the callback with the
\* handler's result, and a close makes the worker exit with nothing logged.
EndToEnd ==
    /\ \A n \in 1..MaxRequests :
          (Len(sent) >= n /\ nCloses = 0)
              ~> (/\ Len(callbacks) >= n
                  /\ HostValueEq(callbacks[n].value, fnc(sent[n])))
    /\ (nCloses > 0) ~> (wpc = "exited" /\ stderr = <<>>)

\* C10: worker error handling.  The loop ends on the first error and prints
\* it unless its kind is ConnectionAborted; reading the sentinel prints
\* nothing; after the loop has ended the worker reads, writes and prints
\* nothing more.
WorkerErrorHandling ==
    [][/\ werr' # werr => (werr = "none" /\ wpc # "exited" /\ wpc' = "exited")
       /\ (wpc # "exited" /\ wpc' = "exited")
            => (/\ werr' # "none"
                /\ stderr' = IF werr' = "ConnectionAborted" THEN stderr
                             ELSE Append(stderr, werr'))
       /\ (ReceiveStep /\ SentinelAtHead) => stderr' = stderr
       /\ wpc # "exited" => (wpc' = "exited" \/ stderr' = stderr)
       /\ wpc = "exited"
            => (/\ wpc' = "exited" /\ stderr' = stderr /\ werr' = werr
                /\ ~ReceiveStep /\ responded' = responded
                /\ Len(Events(memlog', "alloc", "toHost"))
                     = Len(Events(memlog, "alloc", "toHost")))]_vars

\* C10 witness: the write of a response failed; the loop has ended and the
\* error was printed once
WorkerErrorHandlingWitness ==
    /\ wpc = "exited"
    /\ werr = "BrokenPipe"
    /\ stderr = <<"BrokenPipe">>
    /\ Len(received) = 1
    /\ responded = <<>>

\* C11 as claimed: a receive that ends the loop, be it on the sentinel, on
\* end-of-file or on a failed read, returns Closed (ConnectionAborted).
BrokenStreamIsClosed ==
    [][(wpc = "read" /\ wpc' = "exited") => werr' = "ConnectionAborted"]_vars

\* C11 as amended: a read at end-of-file returns Closed, as the sentinel
\* does, and nothing is printed; a read that fails returns the error of the
\* read with its own kind, which is not Closed and is printed.  The loop
\* ends in every case.
EOFIsClosed ==
    [][(wpc = "read" /\ wpc' # "read" /\ ~ReceiveStep)
          => /\ wpc' = "exited"
             /\ received' = received
             /\ IF "in_fd" \in fds'
                THEN /\ toWorker = <<>>
                     /\ werr' = "ConnectionAborted"
                     /\ stderr' = stderr
                ELSE /\ werr' \in ReadErrorKinds
                     /\ werr' # "ConnectionAborted"
                     /\ stderr' = Append(stderr, werr')]_vars

\* C11 witness: the worker answered a request, then read end-of-file and
\* ended with Closed though close_stream was never called
EOFIsClosedWitness ==
    /\ wpc = "exited"
    /\ werr = "ConnectionAborted"
    /\ nCloses = 0
    /\ Len(responded) = 1
    /\ "in_fd" \in fds

\* C12 as claimed: close is idempotent.  A call of async_close_stream after
\* an earlier one returns what the first returned and leaves no more bytes
\* in the host->worker pipe, and the worker's loop ends once.
CloseIdempotent ==
    [][/\ (nCloses' = nCloses + 1 /\ nCloses >= 1)
            => (/\ lastOp'.result = "t"
                /\ toWorker' = toWorker)
       /\ wpc = "exited" => wpc' = "exited"]_vars

\* C13 as claimed: post-close sends fail fast.  A call of
\* async_send_message after close_stream was called does not succeed,
\* writes nothing to the pipe and leaves no box allocated.
PostCloseSendFails ==
    [][(SendCallStep /\ nCloses >= 1)
          => (/\ lastOp'.result # "t"
              /\ toWorker' = toWorker
              /\ heap' = heap)]_vars

\* C14 as claimed: exclusive ownership of the boxed payload.  A box that is
\* allocated and not yet reconstituted has exactly one owner, the in-flight
\* slot that holds its address, and no slot holds the address of a box that
\* is not allocated.
ExclusiveOwnership ==
    \A a \in Addrs :
        InFlight(a) = (IF heap[a].live THEN 1 ELSE 0)

\* C15: single owner of a resource.  The resource has at most one live
\* owner in every state; a call of async_send_message that dispatches a
\* user-ptr leaves that user-ptr with a null pointer and no finalizer,
\* whether its write succeeds or fails; and while a box or the worker holds
\* a UserData, no live user-ptr of the host refers to its data.
SingleOwner ==
    [][/\ Holders' <= 1
       /\ (/\ SendCallStep
           /\ lastOp'.msg.t = "user_ptr"
           /\ lastOp'.result # "wrong_type")
            => (/\ uptr'[lastOp'.msg.id].p = 0
                /\ uptr'[lastOp'.msg.id].finalizer = NullFinalizer
                /\ \E a \in Addrs :
                      /\ ~heap[a].live
                      /\ heap'[a].live
                      /\ heap'[a].val
                           = with_data_and_finalizer(uptr[lastOp'.msg.id].p,
                                                     uptr[lastOp'.msg.id].finalizer))
       /\ \A a \in Addrs :
             (/\ heap'[a].live
              /\ heap'[a].val.k = "USER_DATA"
              /\ heap'[a].val.data # 0)
                => \A i \in 1..Len(uptr') :
                      uptr'[i].live => uptr'[i].p # heap'[a].val.data
       /\ (wmsg'.k = "USER_DATA" /\ wmsg'.data # 0)
             => \A i \in 1..Len(uptr') :
                   uptr'[i].live => uptr'[i].p # wmsg'.data]_vars

\* C15 witness: the user-ptr that make_return_value made from the first
\* round trip was sent in its turn: it is nulled and a box owns the resource
SingleOwnerWitness ==
    /\ lastOp.op = "async_send_message"
    /\ lastOp.msg.t = "user_ptr"
    /\ lastOp.msg.id = 2
    /\ lastOp.result = "t"
    /\ uptr[2].p = 0
    /\ uptr[2].finalizer = NullFinalizer
    /\ \E a \in Addrs :
          /\ heap[a].live
          /\ heap[a].val = with_data_and_finalizer(ResourcePtr, ResourceFinalizer)

\* C16: the sentinel is never a payload address.  A call of
\* async_send_message appends nothing or one field that is not zero; the
\* text message_lisp writes is not the text of zero; a zero field comes into
\* the host->worker pipe only by a call of close_stream; and the worker's
\* loop ends with Closed only on a sentinel that close_stream wrote or on
\* end-of-file.
SentinelNeverPayload ==
    [][/\ SendCallStep
            => \/ toWorker' = toWorker
               \/ /\ Len(toWorker') = Len(toWorker) + ptr_size
                  /\ SubSeq(toWorker', 1, Len(toWorker)) = toWorker
                  /\ from_be_bytes(SubSeq(toWorker', Len(toWorker) + 1,
                                          Len(toWorker'))) # nullptr
       /\ (toHost' # toHost /\ toHost' # <<>>)
            => (/\ parse_usize(toHost').ok
                /\ parse_usize(toHost').value # nullptr)
       /\ Cardinality(FieldsOf(nullptr)') > Cardinality(FieldsOf(nullptr))
            => nCloses' = nCloses + 1
       /\ Cardinality(FieldsOf(nullptr)') <= nCloses'
       /\ (werr = "none" /\ werr' = "ConnectionAborted")
            => \/ SentinelAtHead /\ ReceiveStep /\ nCloses > 0
               \/ toWorker = <<>> /\ toWorker' = <<>>]_vars

\* C16 witness: two payload addresses went through the pipe and were read
\* as requests; then the sentinel of close_stream ended the loop
SentinelNeverPayloadWitness ==
    /\ Len(received) = 2
    /\ Len(responded) = 2
    /\ nCloses >= 1
    /\ wpc = "exited"
    /\ werr = "ConnectionAborted"
    /\ toWorker = <<>>

\* C17: no preemption by close.  A call of close_stream leaves the worker
\* where it is, with the request it holds; the handler's step is followed by
\* the send of its result, and the loop ends only at a receive.  Once a
\* sentinel is written, the requests the worker will ever receive are the
\* ones written before it.  Under fair scheduling every request the worker
\* holds, and every request in the pipe before the first sentinel, gets its
\* response written by message_lisp.
NoPreemption ==
    /\ [][ /\ (nCloses' = nCloses + 1)
                => (/\ wpc' = wpc /\ wmsg' = wmsg
                    /\ responded' = responded /\ received' = received)
           /\ (wpc = "handle" /\ wpc' # "handle")
                => (wpc' = "send" /\ wmsg' = fnc(wmsg))
           /\ (wpc = "send" /\ wpc' # "send")
                => (wpc' = "read" /\ responded' = Append(responded, wmsg))
           /\ (wpc # "exited" /\ wpc' = "exited") => wpc = "read"
           /\ nCloses >= 1 => Answerable' = Answerable
           /\ Len(received') <= Answerable']_vars
    /\ (Len(responded) < Answerable) ~> (Len(responded) = Answerable)

\* C17 witness: the call of close_stream found the worker in the handler
\* for a request; the response was written all the same, and the worker
\* ended only when it read the sentinel at its next receive
NoPreemptionWitness ==
    /\ lastOp.op = "async_close_stream"
    /\ lastOp.during
    /\ Len(received) = 1
    /\ Len(responded) = 1
    /\ wpc = "exited"
    /\ werr = "ConnectionAborted"

\* C18: short transfers are not completed.  A write that transfers fewer
\* bytes than the field still returns success to its caller: a send or a
\* close returns t, and the worker goes on to its next receive; what is in
\* the pipe is the part written and no more.  A receive issues one read of
\* at most ptr_size() bytes and decodes the buffer with the unread bytes
\* zero: the result is Closed for zero, the box for the address of a box, and
\* no error for any other value.  No error but Closed is ever returned.
ShortTransfers ==
    [][/\ (SendCallStep /\ lastOp'.result # "wrong_type")
            => (/\ lastOp'.result = "t"
                /\ \E a \in Addrs, k \in 0..(ptr_size - 1) :
                      /\ ~heap[a].live /\ heap'[a].live
                      /\ toWorker'
                           = toWorker \o SubSeq(to_be_bytes(a), 1, ptr_size - k))
       /\ (nCloses' = nCloses + 1)
            => (/\ lastOp'.result = "t"
                /\ \E k \in 0..(ptr_size - 1) :
                      toWorker' = toWorker \o [i \in 1..(ptr_size - k) |-> 0])
       /\ (wpc = "send" /\ wpc' # "send")
            => (/\ wpc' = "read"
                /\ werr' = werr
                /\ responded' = Append(responded, wmsg)
                /\ \E a \in Addrs, k \in 0..(ptr_size - 1) :
                      /\ ~heap[a].live /\ heap'[a].live
                      /\ toHost' = toHost \o SubSeq(to_string(a), 1,
                                                     Len(to_string(a)) - k))
       /\ ReceiveStep
            => LET n == IF Len(toWorker) < ptr_size THEN Len(toWorker)
                        ELSE ptr_size
                   buffer == SubSeq(toWorker, 1, n) \o [i \in 1..(ptr_size - n) |-> 0]
                   v == from_be_bytes(buffer)
               IN  /\ toWorker' = SubSeq(toWorker, n + 1, Len(toWorker))
                   /\ IF v = nullptr
                      THEN wpc' = "exited" /\ werr' = "ConnectionAborted"
                      ELSE IF BoxValid(heap, v, InputMarker(handlerFn))
                      THEN /\ wpc' = "handle" /\ werr' = werr
                           /\ received' = Append(received, heap[v].val)
                      ELSE ub' /\ werr' = werr /\ wpc' = wpc
       /\ werr' # werr => werr' = "ConnectionAborted"]_vars

\* C18 witness: the write of a request's address was short and the send
\* returned t; the worker's one read took what was in the pipe and decoded
\* it, zero-filled, as an address that is no box
ShortTransfersWitness ==
    /\ lastOp.op = "async_send_message"
    /\ lastOp.result = "t"
    /\ Len(sent) = 1
    /\ received = <<>>
    /\ toWorker = <<>>
    /\ nCloses = 0
    /\ wpc = "read"
    /\ werr = "none"
    /\ ub

\* C19: kind tags are fixed at creation and drive dispatch.  Both kinds come
\* back from the tags create stored; async_send_message boxes a value of the
\* input kind that the plist's tag names, and async_handler calls the
\* callback with a value of the output kind; when the tag is no longer a
\* kind tag, async_send_message signals a type error and does no I/O, and
\* async_handler signals a type error and does not call the callback.
KindTags ==
    [][/\ \A k \in PipeDataOption : to_data_option(from_data_option(k)) = k
       /\ plist.call = "callback"
       /\ plist.type \in {from_data_option(InputMarker(handlerFn)), "Qnil"}
       /\ plist.return \in {from_data_option(OutputMarker(handlerFn)), "Qnil"}
       /\ (SendCallStep /\ plist.type # "Qnil")
            => \/ lastOp'.result = "wrong_type"
                   /\ lastOp'.signal \in {"Qstringp", "Quser_ptrp"}
               \/ /\ lastOp'.result = "t"
                  /\ sent' # sent
                  /\ sent'[Len(sent')].k = InputMarker(handlerFn)
       /\ (SendCallStep /\ plist.type = "Qnil")
            => (/\ lastOp'.result = "wrong_type"
                /\ lastOp'.signal = "Qdata"
                /\ toWorker' = toWorker
                /\ heap' = heap
                /\ uptr' = uptr
                /\ sent' = sent)
       /\ (HandlerStep /\ plist.return # "Qnil" /\ ~panicked')
            => (/\ lastOp'.result = "t"
                /\ Len(callbacks') = Len(callbacks) + 1
                /\ callbacks'[Len(callbacks')].value.t
                     = (IF OutputMarker(handlerFn) = "STRING"
                        THEN "string" ELSE "user_ptr"))
       /\ (HandlerStep /\ plist.return = "Qnil")
            => (/\ lastOp'.result = "wrong_type"
                /\ callbacks' = callbacks
                /\ uptr' = uptr)]_vars

\* C19 witness: the tag of the output kind was removed while a response was
\* on its way; async_handler signalled the type error and the callback was
\* not called
KindTagsWitness ==
    /\ plist.return = "Qnil"
    /\ lastOp.op = "async_handler"
    /\ lastOp.result = "wrong_type"
    /\ Len(responded) = 1
    /\ callbacks = <<>>

\* C20 as claimed: channel operations never close a stream endpoint.  After
\* any sequence of sends, receives and closes, error returns included, the
\* descriptors of the channel are all open.
EndpointsStayOpen ==
    fds = with_process

=============================================================================
